---- MODULE Spec2Model ----
(***************************************************************************)
(* JSTarget (Fuzz4All/target/JS/JS.py): the JavaScript target adapter.     *)
(*                                                                         *)
(* Two specifications over one set of variables:                           *)
(*   SpecText  the text operations filter and clean_code applied to a      *)
(*             candidate drawn from all strings up to MaxLen characters;   *)
(*   Spec      a pool of workers, each running validation calls            *)
(*             (write_back_file, then validate_individual) against one     *)
(*             adapter, one file system and one external interpreter.      *)
(*                                                                         *)
(* A Python str is a sequence of one-character strings.                    *)
(***************************************************************************)
EXTENDS Integers, Sequences, FiniteSets

VARIABLES
    prompt_used,    \* self.prompt_used: [begin, target_api]
    code,           \* SpecText: the candidate handed to filter / clean_code
    accepted,       \* SpecText: filter(code), once called
    normalized,     \* SpecText: clean_code(code), once called
    renormalized,   \* SpecText: clean_code(normalized), once called
    CURRENT_TIME,   \* self.CURRENT_TIME, read by write_back_file
    node,           \* what launching "node" does in this environment
    fs,             \* the files under /tmp: path -> content, or NoFile
    pc,             \* per worker: where its validation call stands
    cand,           \* per worker: the candidate of its current call
    filename,       \* per worker: the path write_back_file returned
    child,          \* per worker: the interpreter process of the call
    seen,           \* per worker: the file content the interpreter read
    completed,      \* per worker: the child's returncode, stdout and stderr
    result,         \* per worker: what validate_individual returned
    spawns,         \* per worker: interpreter processes launched by the call
    expired,        \* per worker: subprocess.run raised TimeoutExpired
    started         \* validation calls started so far

textVars == <<code, accepted, normalized, renormalized>>
callVars == <<CURRENT_TIME, node, fs, pc, cand, filename, child, seen,
              completed, result, spawns, expired, started>>
vars == <<prompt_used, textVars, callVars>>

\* Python's None, and a value that has been set
None == <<>>
Some(x) == <<x>>

----------------------------------------------------------------------------
(* Bounds and input sets                                                   *)

\* longest candidate text of SpecText
MaxLen == 4

\* the characters candidates are made of: two letters, the two whitespace
\* characters and the two characters comments are written with
Alphabet == {"a", "b", " ", "\n", "/", "*"}

Strs == UNION {[1..n -> Alphabet] : n \in 0..MaxLen}

\* configured begin markers (input_hint) and target symbols (api_name)
Begins == {<<"b">>, <<"/", "/", "b">>}
Apis == {<<"a">>, <<"a", "a">>, <<"a", " ", "a">>, <<" ">>, <<"\n", "\n">>}

\* validation calls started in one behaviour of Spec
MaxCalls == 3

\* the pool of worker tasks that validate candidates in parallel
Workers == {"w1", "w2"}

\* values of time.time() at which the adapter may have been constructed
Times == {1, 2}

\* the configuration of Spec: the begin marker is a line comment, as the
\* default "// Write code below" is
Prompts == [begin : {<<"/", "/", "b">>}, target_api : {<<"a">>}]

\* the candidates of Spec; their normalized sources differ
Samples == {<<"a">>, <<"/", "/", "b", "a", "a">>}

\* how launching "node" ends in this environment: the process starts, the
\* binary is not on PATH, or it is there and cannot be executed
Launches == {"ok", "FileNotFoundError", "PermissionError"}

\* what an interpreter run may leave behind
ReturnCodes == {0, 1}
Stdouts == {"", "out"}
Stderrs == {"", "err"}

----------------------------------------------------------------------------
(* Python str operations                                                   *)

\* the characters str.strip() removes, among those of the alphabet
IsSpace(ch) == ch \in {" ", "\n"}

StartsWith(s, p) == Len(p) <= Len(s) /\ SubSeq(s, 1, Len(p)) = p

Drop(s, n) == SubSeq(s, n + 1, Len(s))

RECURSIVE LStrip(_)
LStrip(s) ==
    IF s # <<>> /\ IsSpace(Head(s)) THEN LStrip(Tail(s)) ELSE s

RECURSIVE RStrip(_)
RStrip(s) ==
    IF s # <<>> /\ IsSpace(s[Len(s)]) THEN RStrip(SubSeq(s, 1, Len(s) - 1)) ELSE s

\* s.strip()
Strip(s) == RStrip(LStrip(s))

\* s.replace(old, "", 1): only the first occurrence goes
RECURSIVE StrReplaceFirst(_, _)
StrReplaceFirst(s, old) ==
    IF old = <<>> \/ s = <<>> THEN s
    ELSE IF StartsWith(s, old) THEN Drop(s, Len(old))
    ELSE <<Head(s)>> \o StrReplaceFirst(Tail(s), old)

\* s.replace(old, ""): a left-to-right scan that drops every non-overlapping
\* occurrence of old and continues after it
RECURSIVE StrReplace(_, _)
StrReplace(s, old) ==
    IF old = <<>> \/ s = <<>> THEN s
    ELSE IF StartsWith(s, old) THEN StrReplace(Drop(s, Len(old)), old)
    ELSE <<Head(s)>> \o StrReplace(Tail(s), old)

\* t in s
Contains(s, t) ==
    \E i \in 0..(Len(s) - Len(t)) : SubSeq(s, i + 1, i + Len(t)) = t

\* s.split("\n")
RECURSIVE Split(_)
Split(s) ==
    IF \A i \in 1..Len(s) : s[i] # "\n" THEN <<s>>
    ELSE LET k == CHOOSE i \in 1..Len(s) :
                      s[i] = "\n" /\ \A j \in 1..(i - 1) : s[j] # "\n"
         IN  <<SubSeq(s, 1, k - 1)>> \o Split(Drop(s, k))

\* "\n".join(lines)
RECURSIVE Join(_)
Join(lines) ==
    IF lines = <<>> THEN <<>>
    ELSE IF Len(lines) = 1 THEN lines[1]
    ELSE lines[1] \o <<"\n">> \o Join(Tail(lines))

\* [ln for ln in lines if ln.strip() != ""]
RECURSIVE NonBlank(_)
NonBlank(lines) ==
    IF lines = <<>> THEN <<>>
    ELSE IF Strip(Head(lines)) # <<>> THEN <<Head(lines)>> \o NonBlank(Tail(lines))
    ELSE NonBlank(Tail(lines))

----------------------------------------------------------------------------
(* Fuzz4All.util.util.comment_remover: comments are stripped. A line       *)
(* comment runs from // to the end of its line (the line break stays); a   *)
(* block comment runs from /* to the next */.                              *)

RECURSIVE SkipLine(_)
SkipLine(s) ==
    IF s = <<>> \/ Head(s) = "\n" THEN s ELSE SkipLine(Tail(s))

HasClose(s) == Contains(s, <<"*", "/">>)

RECURSIVE AfterClose(_)
AfterClose(s) ==
    IF StartsWith(s, <<"*", "/">>) THEN Drop(s, 2) ELSE AfterClose(Tail(s))

RECURSIVE comment_remover(_)
comment_remover(s) ==
    IF s = <<>> THEN s
    ELSE IF StartsWith(s, <<"/", "/">>) THEN comment_remover(SkipLine(Drop(s, 2)))
    ELSE IF StartsWith(s, <<"/", "*">>) /\ HasClose(Drop(s, 2))
         THEN comment_remover(AfterClose(Drop(s, 2)))
    ELSE <<Head(s)>> \o comment_remover(Tail(s))

----------------------------------------------------------------------------
(* JSTarget.filter and JSTarget.clean_code                                 *)

\* filter as it would be without the comment_remover call
filter_keeping_comments(c) ==
    Contains(Strip(StrReplace(c, prompt_used.begin)), prompt_used.target_api)

filter(c) ==
    LET stripped == Strip(StrReplace(c, prompt_used.begin))
        bare == comment_remover(stripped)
    IN  Contains(bare, prompt_used.target_api)

clean_code(c) ==
    LET stripped == Strip(StrReplace(c, prompt_used.begin))
        bare == comment_remover(stripped)
    IN  Join(NonBlank(Split(bare)))

----------------------------------------------------------------------------
(* The state no validation call has touched                                *)

TempPath(t) == <<"/tmp/temp", t, ".js">>

Paths == {TempPath(t) : t \in Times}

NoCalls ==
    /\ fs = [p \in Paths |-> None]
    /\ pc = [w \in Workers |-> "idle"]
    /\ cand = [w \in Workers |-> <<>>]
    /\ filename = [w \in Workers |-> None]
    /\ child = [w \in Workers |-> "none"]
    /\ seen = [w \in Workers |-> None]
    /\ completed = [w \in Workers |-> None]
    /\ result = [w \in Workers |-> None]
    /\ spawns = [w \in Workers |-> 0]
    /\ expired = [w \in Workers |-> FALSE]
    /\ started = 0

NoText ==
    /\ code = <<>>
    /\ accepted = None
    /\ normalized = None
    /\ renormalized = None

----------------------------------------------------------------------------
(* SpecText: the text operations applied to one candidate                  *)

InitText ==
    /\ prompt_used \in [begin : Begins, target_api : Apis]
    /\ code \in Strs
    /\ accepted = None
    /\ normalized = None
    /\ renormalized = None
    /\ CURRENT_TIME = 1
    /\ node = "ok"
    /\ NoCalls

\* accept: the caller asks whether the candidate is worth running
Filter ==
    /\ accepted = None
    /\ accepted' = Some(filter(code))
    /\ UNCHANGED <<prompt_used, code, normalized, renormalized, callVars>>

\* normalize: the caller asks for the runnable source of the candidate
CleanCode ==
    /\ normalized = None
    /\ normalized' = Some(clean_code(code))
    /\ UNCHANGED <<prompt_used, code, accepted, renormalized, callVars>>

\* normalize applied to a normalized source
CleanCodeAgain ==
    /\ normalized # None
    /\ renormalized = None
    /\ renormalized' = Some(clean_code(normalized[1]))
    /\ UNCHANGED <<prompt_used, code, accepted, normalized, callVars>>

NextText == Filter \/ CleanCode \/ CleanCodeAgain

SpecText == InitText /\ [][NextText]_vars

----------------------------------------------------------------------------
(* Spec: validation calls. A call is write_back_file(code) followed by     *)
(* validate_individual(filename); the workers' calls interleave.           *)

Init ==
    /\ prompt_used \in Prompts
    /\ NoText
    /\ CURRENT_TIME \in Times
    /\ node \in Launches
    /\ NoCalls

\* write_back_file, up to open(wb, "w"): the path is made of CURRENT_TIME and
\* the file is created, or truncated if it is there. A worker whose last call
\* has returned takes the next candidate.
WriteBackFileOpen(w) ==
    /\ pc[w] \in {"idle", "done"}
    /\ started < MaxCalls
    /\ \E c \in Samples : cand' = [cand EXCEPT ![w] = c]
    /\ fs' = [fs EXCEPT ![TempPath(CURRENT_TIME)] = Some(<<>>)]
    /\ pc' = [pc EXCEPT ![w] = "writing"]
    /\ filename' = [filename EXCEPT ![w] = None]
    /\ child' = [child EXCEPT ![w] = "none"]
    /\ seen' = [seen EXCEPT ![w] = None]
    /\ completed' = [completed EXCEPT ![w] = None]
    /\ result' = [result EXCEPT ![w] = None]
    /\ spawns' = [spawns EXCEPT ![w] = 0]
    /\ expired' = [expired EXCEPT ![w] = FALSE]
    /\ started' = started + 1
    /\ UNCHANGED <<prompt_used, textVars, CURRENT_TIME, node>>

\* write_back_file, from f.write(code) to return wb: the normalized source
\* reaches the file as the with block closes it
WriteBackFileWrite(w) ==
    /\ pc[w] = "writing"
    /\ fs' = [fs EXCEPT ![TempPath(CURRENT_TIME)] = Some(clean_code(cand[w]))]
    /\ filename' = [filename EXCEPT ![w] = Some(TempPath(CURRENT_TIME))]
    /\ pc' = [pc EXCEPT ![w] = "validate"]
    /\ UNCHANGED <<prompt_used, textVars, CURRENT_TIME, node, cand, child, seen,
                   completed, result, spawns, expired, started>>

\* return FResult.ERROR, "node-not-found"
NotFoundReturn == <<"ERROR", "node-not-found">>

\* validate_individual: subprocess.run launches ["node", filename]
Launch(w) ==
    /\ pc[w] = "validate"
    /\ \/ /\ node = "ok"
          /\ child' = [child EXCEPT ![w] = "running"]
          /\ spawns' = [spawns EXCEPT ![w] = @ + 1]
          /\ pc' = [pc EXCEPT ![w] = "waiting"]
          /\ UNCHANGED result
       \/ /\ node = "FileNotFoundError"
          /\ result' = [result EXCEPT ![w] = Some(NotFoundReturn)]
          /\ pc' = [pc EXCEPT ![w] = "done"]
          /\ UNCHANGED <<child, spawns>>
       \/ /\ node = "PermissionError"
          /\ pc' = [pc EXCEPT ![w] = "raised"]
          /\ UNCHANGED <<child, spawns, result>>
    /\ UNCHANGED <<prompt_used, textVars, CURRENT_TIME, node, fs, cand, filename,
                   seen, completed, expired, started>>

\* the interpreter reads the file it was given
ChildRead(w) ==
    /\ child[w] = "running"
    /\ seen[w] = None
    /\ seen' = [seen EXCEPT ![w] = Some(fs[filename[w][1]])]
    /\ UNCHANGED <<prompt_used, textVars, CURRENT_TIME, node, fs, pc, cand,
                   filename, child, completed, result, spawns, expired, started>>

\* the interpreter ends on its own
ChildExit(w) ==
    /\ child[w] = "running"
    /\ seen[w] # None
    /\ \E rc \in ReturnCodes, out \in Stdouts, err \in Stderrs :
           completed' = [completed EXCEPT ![w] =
               Some([returncode |-> rc, stdout |-> out, stderr |-> err])]
    /\ child' = [child EXCEPT ![w] = "exited"]
    /\ UNCHANGED <<prompt_used, textVars, CURRENT_TIME, node, fs, pc, cand,
                   filename, seen, result, spawns, expired, started>>

\* Python's  a or b  on strings
PyOr(a, b) == IF a # "" THEN a ELSE b

\* the classifier with FAILURE's diagnostic taken from stdout first
ClassifyStdoutFirst(p) ==
    IF p.returncode = 0 THEN <<"SAFE", PyOr(p.stdout, "ok")>>
    ELSE <<"FAILURE", PyOr(p.stdout, p.stderr)>>

\* the classifier with the exit status ignored
ClassifyAnyStatus(p) == <<"SAFE", PyOr(p.stdout, "ok")>>

\* validate_individual after subprocess.run has returned
Classify(p) ==
    IF p.returncode = 0 THEN <<"SAFE", PyOr(p.stdout, "ok")>>
    ELSE <<"FAILURE", PyOr(p.stderr, p.stdout)>>

\* subprocess.run returns the CompletedProcess and the call classifies it
Complete(w) ==
    /\ pc[w] = "waiting"
    /\ child[w] = "exited"
    /\ result' = [result EXCEPT ![w] = Some(Classify(completed[w][1]))]
    /\ pc' = [pc EXCEPT ![w] = "done"]
    /\ UNCHANGED <<prompt_used, textVars, CURRENT_TIME, node, fs, cand, filename,
                   child, seen, completed, spawns, expired, started>>

\* the timeout runs out with the child still running: communicate raises
\* TimeoutExpired inside subprocess.run
TimeoutFires(w) ==
    /\ pc[w] = "waiting"
    /\ child[w] = "running"
    /\ expired' = [expired EXCEPT ![w] = TRUE]
    /\ pc' = [pc EXCEPT ![w] = "expired"]
    /\ UNCHANGED <<prompt_used, textVars, CURRENT_TIME, node, fs, cand, filename,
                   child, seen, completed, result, spawns, started>>

\* the except clause with the captured output handed back as a failure
TimedOutReturnAsFailure == <<"FAILURE", "out">>

\* return FResult.TIMED_OUT, "javascript"
TimedOutReturn == <<"TIMED_OUT", "javascript">>

\* subprocess.run kills the child, waits for it and re-raises; the call's
\* except clause returns
KillAndReturn(w) ==
    /\ pc[w] = "expired"
    /\ child' = [child EXCEPT ![w] = IF @ = "running" THEN "killed" ELSE @]
    /\ result' = [result EXCEPT ![w] = Some(TimedOutReturn)]
    /\ pc' = [pc EXCEPT ![w] = "done"]
    /\ UNCHANGED <<prompt_used, textVars, CURRENT_TIME, node, fs, cand, filename,
                   seen, completed, spawns, expired, started>>

Next ==
    \E w \in Workers :
        \/ WriteBackFileOpen(w)
        \/ WriteBackFileWrite(w)
        \/ Launch(w)
        \/ ChildRead(w)
        \/ ChildExit(w)
        \/ Complete(w)
        \/ TimeoutFires(w)
        \/ KillAndReturn(w)

Spec == Init /\ [][Next]_vars

----------------------------------------------------------------------------
(* Claims about the text operations, checked under SpecText                *)

\* where old first occurs in s (0: nowhere)
FirstAt(s, old) ==
    IF Contains(s, old)
    THEN 1 + CHOOSE i \in 0..(Len(s) - Len(old)) :
                 /\ SubSeq(s, i + 1, i + Len(old)) = old
                 /\ \A j \in 0..(i - 1) : SubSeq(s, j + 1, j + Len(old)) # old
    ELSE 0

\* s with the first occurrence of old cut out
WithoutFirst(s, old) ==
    IF old = <<>> \/ FirstAt(s, old) = 0 THEN s
    ELSE SubSeq(s, 1, FirstAt(s, old) - 1)
             \o SubSeq(s, FirstAt(s, old) + Len(old), Len(s))

\* s with every occurrence of old cut out, found from left to right, each
\* search starting behind the occurrence cut before
RECURSIVE WithoutEvery(_, _)
WithoutEvery(s, old) ==
    IF old = <<>> \/ FirstAt(s, old) = 0 THEN s
    ELSE SubSeq(s, 1, FirstAt(s, old) - 1)
             \o WithoutEvery(SubSeq(s, FirstAt(s, old) + Len(old), Len(s)), old)

\* C8: clean_code is idempotent: normalizing a normalized source gives that
\* source back, for every candidate and every begin marker.
C8_CleanCodeIdempotent ==
    renormalized # None => renormalized = normalized

\* a target symbol written on one line with a character that is not
\* whitespace in it
SymbolOnOneLine ==
    /\ \A i \in 1..Len(prompt_used.target_api) : prompt_used.target_api[i] # "\n"
    /\ \E i \in 1..Len(prompt_used.target_api) : ~IsSpace(prompt_used.target_api[i])

\* C9 as stated: for every configuration, filter returns true only if the
\* target symbol is a substring of clean_code of the same candidate.
C9_AcceptedHasSymbol ==
    (accepted = Some(TRUE) /\ normalized # None)
        => Contains(normalized[1], prompt_used.target_api)

\* C9 amended: the same, for a target symbol that has no line break and at
\* least one non-whitespace character.
C9_AcceptedHasSymbolOnOneLine ==
    (accepted = Some(TRUE) /\ normalized # None /\ SymbolOnOneLine)
        => Contains(normalized[1], prompt_used.target_api)

\* an accepted candidate whose normalized source is not the candidate itself
C9_Witness ==
    /\ accepted = Some(TRUE)
    /\ normalized # None
    /\ SymbolOnOneLine
    /\ normalized[1] # code
    /\ Contains(code, <<"/", "/">>)

\* C10 as stated: filter answers whether the target symbol is a substring of
\* the candidate with the FIRST occurrence of the begin marker cut out,
\* trimmed and stripped of comments.
C10_FilterCutsFirstMarker ==
    accepted # None =>
        accepted[1] = Contains(comment_remover(Strip(WithoutFirst(code, prompt_used.begin))),
                               prompt_used.target_api)

\* C10 amended: filter answers whether the target symbol is a substring of
\* the candidate with EVERY occurrence of the begin marker cut out (left to
\* right, not overlapping), trimmed and stripped of comments.
C10_FilterCutsEveryMarker ==
    accepted # None =>
        accepted[1] = Contains(comment_remover(Strip(WithoutEvery(code, prompt_used.begin))),
                               prompt_used.target_api)

\* filter has accepted a candidate that holds the begin marker twice
C10_Witness ==
    /\ accepted = Some(TRUE)
    /\ FirstAt(code, prompt_used.begin) # 0
    /\ FirstAt(WithoutFirst(code, prompt_used.begin), prompt_used.begin) # 0
    /\ WithoutEvery(code, prompt_used.begin) # WithoutFirst(code, prompt_used.begin)

----------------------------------------------------------------------------
(* Claims about validation calls, checked under Spec                       *)

\* the call of worker w is between write_back_file's return and its own end
Validating(w) == filename[w] # None /\ pc[w] \in {"validate", "waiting", "expired"}

\* the call of worker w has ended: it returned, or an exception left it
Ended(w) == pc[w] \in {"done", "raised"}

Outcomes == {"SAFE", "FAILURE", "TIMED_OUT", "ERROR"}

\* C1: two calls that run concurrently on distinct candidates have different
\* artifact paths, and the interpreter of each reads exactly the normalized
\* source of its own candidate.
C1_OwnArtifact ==
    \A w1 \in Workers : \A w2 \in Workers \ {w1} :
        (Validating(w1) /\ Validating(w2) /\ cand[w1] # cand[w2]) =>
            /\ filename[w1] # filename[w2]
            /\ (seen[w1] # None => seen[w1] = Some(Some(clean_code(cand[w1]))))

\* C2: once a call has returned, with whatever outcome, the artifact file
\* that write_back_file created for it is gone.
C2_ArtifactRemoved ==
    \A w \in Workers :
        (pc[w] = "done" /\ filename[w] # None) => fs[filename[w][1]] = None

\* C3: SAFE is returned only for a child that was launched, did not run into
\* the timeout and exited with status zero; a timeout, a failed launch and a
\* nonzero status never give SAFE.
C3_SafeOnlyOnCleanExit ==
    \A w \in Workers :
        result[w] # None =>
            /\ (result[w][1][1] = "SAFE" =>
                   (/\ spawns[w] = 1
                    /\ ~expired[w]
                    /\ child[w] = "exited"
                    /\ completed[w][1].returncode = 0))
            /\ ((\/ expired[w]
                 \/ spawns[w] = 0
                 \/ (completed[w] # None /\ completed[w][1].returncode # 0))
                    => result[w][1][1] # "SAFE")

\* a call has returned SAFE
C3_Witness ==
    \E w \in Workers : pc[w] = "done" /\ result[w] # None /\ result[w][1][1] = "SAFE"

\* C4: every call ends with one of the four outcomes, none leaves with an
\* unclassified error, and the interpreter is launched at most once per call.
C4_OneOfFourOutcomes ==
    \A w \in Workers :
        Ended(w) =>
            /\ result[w] # None
            /\ result[w][1][1] \in Outcomes
            /\ spawns[w] <= 1

\* C5: a call whose timeout ran out with the child still running returns
\* TIMED_OUT with the fixed label "javascript", and its child is not running
\* when it returns.
C5_TimedOutAndKilled ==
    \A w \in Workers :
        (pc[w] = "done" /\ expired[w]) =>
            /\ result[w] = Some(<<"TIMED_OUT", "javascript">>)
            /\ child[w] # "running"

\* a call has returned after its timeout ran out, its child killed
C5_Witness ==
    \E w \in Workers :
        pc[w] = "done" /\ expired[w] /\ child[w] = "killed" /\ seen[w] # None

\* C6: when the interpreter cannot be located or launched, every call returns
\* ERROR with the sentinel "node-not-found".
C6_UnlaunchableIsError ==
    \A w \in Workers :
        (node # "ok" /\ Ended(w)) => result[w] = Some(<<"ERROR", "node-not-found">>)

\* C7: a completed run is classified by the table: status zero gives SAFE
\* with stdout, or "ok" when stdout is empty; a nonzero status gives FAILURE
\* with stderr when it is non-empty, else stdout.
C7_ClassifierTable ==
    \A w \in Workers :
        (pc[w] = "done" /\ ~expired[w] /\ completed[w] # None) =>
            LET p == completed[w][1]
                r == result[w][1]
            IN  /\ (p.returncode = 0 =>
                       (/\ r[1] = "SAFE"
                        /\ (p.stdout = "" => r[2] = "ok")
                        /\ (p.stdout # "" => r[2] = p.stdout)))
                /\ (p.returncode # 0 =>
                       (/\ r[1] = "FAILURE"
                        /\ (p.stderr # "" => (r[2] = p.stderr /\ r[2] # ""))
                        /\ (p.stderr = "" => r[2] = p.stdout)))

\* a run that failed with text on both streams has been classified
C7_Witness ==
    \E w \in Workers :
        /\ pc[w] = "done" /\ ~expired[w] /\ completed[w] # None
        /\ completed[w][1].returncode # 0
        /\ completed[w][1].stderr # ""
        /\ completed[w][1].stdout # ""

====
